---- MODULE Spec2Model ----
(***************************************************************************)
(* The reservation / confirmation engine of the ticket booking backend:    *)
(* BookingService.reserveTickets and BookingService.confirmBooking running *)
(* as concurrent PostgreSQL transactions (READ COMMITTED) over the tables  *)
(* tickets, events and users.                                              *)
(*                                                                         *)
(* The committed tables are the variables tickets, events and users.  A    *)
(* transaction's writes are private (wrT, wrE) until its COMMIT and are    *)
(* discarded by ROLLBACK; its row locks (lockT, lockE) are held until      *)
(* either.  Statements sent through the pool instead of the transaction's  *)
(* client read the committed tables and commit at once.                    *)
(***************************************************************************)
EXTENDS Integers, Sequences, FiniteSets, TLC

\* ------------------------------------------------------------------ bounds
NumProcs == 2          \* concurrent callers
MaxCalls == 2          \* calls started in one behaviour
MaxQuantity == 2       \* largest quantity of a demand entry
MaxDemand == 2         \* longest demand list
MaxTicketIds == 2      \* longest ticket-id list of a confirm call
NumVip == 2            \* VIP tickets created for event 1
NumGa == 1             \* GA tickets created for event 1

Procs == 1..NumProcs
NULL == 0
NoSuchUser == 9
NoSuchEvent == 9

UserIds == {1, 2}
EventIds == {1}
TicketIds == 1..(NumVip + NumGa)
TicketTier == {"VIP", "Front Row", "GA"}
DemandTiers == {"VIP", "GA"}
UserArgs == UserIds \cup {NoSuchUser}
EventArgs == EventIds \cup {NoSuchEvent}

\* The rows createTickets inserts: VIP first, then GA, all for event 1.
tierOf(id) == IF id <= NumVip THEN "VIP" ELSE "GA"
eventOf(id) == 1

\* ------------------------------------------------------------ call inputs
DemandEntry == [tier : DemandTiers, quantity : 0..MaxQuantity]
Demands == UNION {[1..n -> DemandEntry] : n \in 0..MaxDemand}
TicketIdLists == UNION {[1..n -> TicketIds] : n \in 0..MaxTicketIds}
Payments == {"success", "fail"}

NoRequest ==
  [op |-> "none", userId |-> NULL, eventId |-> NULL, tickets |-> <<>>,
   ticketIds |-> <<>>, paymentSimulation |-> "success"]
Outcome(type, tier, available, requested, ticketId, status, rows) ==
  [type |-> type, tier |-> tier, available |-> available,
   requested |-> requested, ticketId |-> ticketId, status |-> status,
   tickets |-> rows]
NoResult == Outcome("none", "", 0, 0, NULL, "", <<>>)

VARIABLES
  tickets,          \* table tickets (committed): id -> row
  events,           \* table events (committed): id -> available counters
  users,            \* table users (committed): id -> tickets array
  pc,               \* where each caller stands in its call
  req,              \* the arguments of each caller's current call
  i, j,             \* loop positions of the call
  reservedTickets,  \* reserveTickets: rows leased so far
  verified,         \* confirmBooking: the local array of verified rows
  user,             \* confirmBooking: user.tickets as read at the start
  wrT, wrE,         \* uncommitted writes of each caller's transaction
  lockT, lockE,     \* row locks: the caller holding each row, or NULL
  result,           \* what each caller's last call returned or threw
  calls             \* calls started so far

vars == <<tickets, events, users, pc, req, i, j, reservedTickets, verified,
          user, wrT, wrE, lockT, lockE, result, calls>>

\* ------------------------------------------------------------- sequences
Range(s) == {s[k] : k \in DOMAIN s}

\* tickets.find(t => t.tier === tier)?.quantity || 0
FindQuantity(demand, tier) ==
  LET hits == {k \in DOMAIN demand : demand[k].tier = tier}
  IN IF hits = {} THEN 0
     ELSE demand[CHOOSE k \in hits : \A m \in hits : k <= m].quantity

\* tickets.filter(t => t.tier === tier).length
FilterCount(rows, tier) ==
  Cardinality({k \in DOMAIN rows : rows[k].tier = tier})

\* ------------------------------------------------------- error responses
\* NotFoundError(message) and BadRequestError(message), told apart by message
UserNotFound == Outcome("NotFound:User", "", 0, 0, NULL, "", <<>>)
EventNotFound == Outcome("NotFound:Event", "", 0, 0, NULL, "", <<>>)
TicketNotFound(id) == Outcome("NotFound:Ticket", "", 0, 0, id, "", <<>>)
\* `Insufficient tickets available for ${tier}. Available: .., Requested: ..`
Insufficient(tier, availableCount, quantity) ==
  Outcome("Insufficient", tier, availableCount, quantity, NULL, "", <<>>)
\* `Failed to reserve ticket for ${tier}. Ticket may have been booked ...`
FailedToReserve(tier) == Outcome("FailedToReserve", tier, 0, 0, NULL, "", <<>>)
\* `Ticket ${ticketId} does not belong to this user`
NotThisUser(id) == Outcome("NotThisUser", "", 0, 0, id, "", <<>>)
\* `Ticket ${ticketId} is not in pending status. Current status: ${status}`
NotPending(id, status) == Outcome("NotPending", "", 0, 0, id, status, <<>>)
\* tickets[0].event_id with tickets empty: a TypeError, no business error
TypeError == Outcome("TypeError", "", 0, 0, NULL, "", <<>>)
Reserved(rows) == Outcome("reserved", "", 0, 0, NULL, "", rows)
Confirmed(rows) == Outcome("confirmed", "", 0, 0, NULL, "", rows)
StorageError == Outcome("StorageError", "", 0, 0, NULL, "", <<>>)
Released == Outcome("released", "", 0, 0, NULL, "", <<>>)

\* ------------------------------------------------------------ the tables
Row(id, status, user_id, booked_at) ==
  [id |-> id, event_id |-> eventOf(id), tier |-> tierOf(id),
   status |-> status, user_id |-> user_id, booked_at |-> booked_at]

Counters(vip, frontRow, ga) ==
  [available_vip |-> vip, available_front_row |-> frontRow,
   available_ga |-> ga]

available(ev, tier) ==
  CASE tier = "VIP" -> ev.available_vip
    [] tier = "Front Row" -> ev.available_front_row
    [] tier = "GA" -> ev.available_ga

\* the rows a statement of p's transaction sees: committed rows under p's own
txTickets(p) ==
  [t \in TicketIds |-> IF t \in DOMAIN wrT[p] THEN wrT[p][t] ELSE tickets[t]]
txEvents(p) ==
  [e \in DOMAIN events |->
     IF e \in DOMAIN wrE[p] THEN wrE[p][e] ELSE events[e]]

\* ------------------------------------------------------ EventRepository
\* the changes subtracted instead of added
updateAvailableTickets_subtracts(ev, vipChange, frontRowChange, gaChange) ==
  Counters(ev.available_vip - vipChange,
           ev.available_front_row - frontRowChange,
           ev.available_ga - gaChange)

\* UPDATE events SET available_vip = available_vip + $1, ... WHERE id = $4
updateAvailableTickets(ev, vipChange, frontRowChange, gaChange) ==
  Counters(ev.available_vip + vipChange,
           ev.available_front_row + frontRowChange,
           ev.available_ga + gaChange)

\* ----------------------------------------------------- TicketRepository
\* reserveTicket without "AND status = 'available'" in its subquery
reserveTicket_anyStatus(p, eventId, tier) ==
  LET free == {t \in TicketIds :
                 /\ txTickets(p)[t].event_id = eventId
                 /\ txTickets(p)[t].tier = tier
                 /\ lockT[t] \in {NULL, p}}
  IN IF free = {} THEN NULL
     ELSE CHOOSE t \in free : \A o \in free : t <= o

\* reserveTicket with ORDER BY id DESC: the highest id is taken
reserveTicket_highestId(p, eventId, tier) ==
  LET free == {t \in TicketIds :
                 /\ txTickets(p)[t].event_id = eventId
                 /\ txTickets(p)[t].tier = tier
                 /\ txTickets(p)[t].status = "available"
                 /\ lockT[t] \in {NULL, p}}
  IN IF free = {} THEN NULL
     ELSE CHOOSE t \in free : \A o \in free : t >= o

\* reserveTicket without the event_id = $2 condition
reserveTicket_anyEvent(p, eventId, tier) ==
  LET free == {t \in TicketIds :
                 /\ txTickets(p)[t].tier = tier
                 /\ txTickets(p)[t].status = "available"
                 /\ lockT[t] \in {NULL, p}}
  IN IF free = {} THEN NULL
     ELSE CHOOSE t \in free : \A o \in free : t <= o

\* reserveTicket taking held tickets as well as available ones
reserveTicket_heldToo(p, eventId, tier) ==
  LET free == {t \in TicketIds :
                 /\ txTickets(p)[t].event_id = eventId
                 /\ txTickets(p)[t].tier = tier
                 /\ txTickets(p)[t].status \in {"available", "pending"}
                 /\ t \notin DOMAIN wrT[p]
                 /\ lockT[t] \in {NULL, p}}
  IN IF free = {} THEN NULL
     ELSE CHOOSE t \in free : \A o \in free : t <= o

\* UPDATE tickets SET status = 'pending', user_id = $1 WHERE id = (SELECT id
\* FROM tickets WHERE event_id = $2 AND tier = $3 AND status = 'available'
\* ORDER BY id LIMIT 1 FOR UPDATE SKIP LOCKED): the id chosen, or NULL
reserveTicket(p, eventId, tier) ==
  LET free == {t \in TicketIds :
                 /\ txTickets(p)[t].event_id = eventId
                 /\ txTickets(p)[t].tier = tier
                 /\ txTickets(p)[t].status = "available"
                 /\ lockT[t] \in {NULL, p}}
  IN IF free = {} THEN NULL
     ELSE CHOOSE t \in free : \A o \in free : t <= o

\* the UPDATE that leaves the row's user_id as it was
reservedRow_noOwner(row, userId) == [row EXCEPT !.status = "pending"]

\* SET status = 'pending', user_id = $1 ... RETURNING *: the row written
reservedRow(row, userId) ==
  [row EXCEPT !.status = "pending", !.user_id = userId]

\* the tier's available count, asked through the pool: the committed value
getAvailableCountByTier(eventId, tier) == available(events[eventId], tier)

\* SELECT * FROM tickets WHERE id = $1 FOR UPDATE: the row, or NULL
findByIdForUpdate(p, ticketId) ==
  IF ticketId \in TicketIds THEN txTickets(p)[ticketId] ELSE NULL

cancelReservation(row) ==
  [row EXCEPT !.status = "available", !.user_id = NULL, !.booked_at = FALSE]
bookTicket(row) == [row EXCEPT !.status = "booked", !.booked_at = TRUE]

\* confirmedTickets.map(t => t.id.toString())
newTicketIds(rows) == [k \in DOMAIN rows |-> ToString(rows[k].id)]

\* --------------------------------------------------------- transactions
\* The tables after createTickets and, for ticket 1, after what user 1 may
\* already have done with it: nothing, reserved it, or bought it.
SeedStatus == {"available", "pending", "booked"}

Init ==
  /\ \E status \in SeedStatus :
       /\ tickets = [t \in TicketIds |->
                       IF t = 1 /\ status # "available"
                         THEN Row(t, status, 1, status = "booked")
                         ELSE Row(t, "available", NULL, FALSE)]
       /\ events = [e \in EventIds |->
                      Counters(IF status = "available" THEN NumVip
                                                       ELSE NumVip - 1,
                               0, NumGa)]
       /\ users = [u \in UserIds |->
                     IF u = 1 /\ status = "booked" THEN <<ToString(1)>>
                                                   ELSE <<>>]
  /\ pc = [p \in Procs |-> "idle"]
  /\ req = [p \in Procs |-> NoRequest]
  /\ i = [p \in Procs |-> 0]
  /\ j = [p \in Procs |-> 0]
  /\ reservedTickets = [p \in Procs |-> <<>>]
  /\ verified = [p \in Procs |-> <<>>]
  /\ user = [p \in Procs |-> <<>>]
  /\ wrT = [p \in Procs |-> <<>>]
  /\ wrE = [p \in Procs |-> <<>>]
  /\ lockT = [t \in TicketIds |-> NULL]
  /\ lockE = [e \in EventIds |-> NULL]
  /\ result = [p \in Procs |-> NoResult]
  /\ calls = 0

\* client.release() after COMMIT or ROLLBACK: the locals go, the locks go
\* the end of a transaction that leaves its row locks in place
Release_keepsLocks(p, outcome) ==
  /\ pc' = [pc EXCEPT ![p] = "idle"]
  /\ result' = [result EXCEPT ![p] = outcome]
  /\ req' = [req EXCEPT ![p] = NoRequest]
  /\ i' = [i EXCEPT ![p] = 0]
  /\ j' = [j EXCEPT ![p] = 0]
  /\ reservedTickets' = [reservedTickets EXCEPT ![p] = <<>>]
  /\ verified' = [verified EXCEPT ![p] = <<>>]
  /\ user' = [user EXCEPT ![p] = <<>>]
  /\ wrT' = [wrT EXCEPT ![p] = <<>>]
  /\ wrE' = [wrE EXCEPT ![p] = <<>>]
  /\ UNCHANGED <<lockT, lockE>>

Release(p, outcome) ==
  /\ pc' = [pc EXCEPT ![p] = "idle"]
  /\ result' = [result EXCEPT ![p] = outcome]
  /\ req' = [req EXCEPT ![p] = NoRequest]
  /\ i' = [i EXCEPT ![p] = 0]
  /\ j' = [j EXCEPT ![p] = 0]
  /\ reservedTickets' = [reservedTickets EXCEPT ![p] = <<>>]
  /\ verified' = [verified EXCEPT ![p] = <<>>]
  /\ user' = [user EXCEPT ![p] = <<>>]
  /\ wrT' = [wrT EXCEPT ![p] = <<>>]
  /\ wrE' = [wrE EXCEPT ![p] = <<>>]
  /\ lockT' = [t \in TicketIds |-> IF lockT[t] = p THEN NULL ELSE lockT[t]]
  /\ lockE' = [e \in DOMAIN lockE |->
                 IF lockE[e] = p THEN NULL ELSE lockE[e]]

\* a catch block that ends the transaction without undoing its writes
Rollback_keepsWrites(p, error) ==
  /\ tickets' = [t \in TicketIds |->
                   IF t \in DOMAIN wrT[p] THEN wrT[p][t] ELSE tickets[t]]
  /\ events' = [e \in DOMAIN events |->
                  IF e \in DOMAIN wrE[p] THEN wrE[p][e] ELSE events[e]]
  /\ Release(p, error)

\* ROLLBACK: the transaction's writes are dropped
Rollback(p, error) ==
  /\ Release(p, error)
  /\ UNCHANGED <<tickets, events>>

\* throw inside try: control goes to the catch block with the error; the
\* transaction, its writes and its locks stay until ROLLBACK has run
Throw(p, error) ==
  /\ pc' = [pc EXCEPT ![p] = "rollback"]
  /\ result' = [result EXCEPT ![p] = error]
  /\ i' = [i EXCEPT ![p] = 0]
  /\ j' = [j EXCEPT ![p] = 0]
  /\ reservedTickets' = [reservedTickets EXCEPT ![p] = <<>>]
  /\ verified' = [verified EXCEPT ![p] = <<>>]
  /\ user' = [user EXCEPT ![p] = <<>>]
  /\ UNCHANGED <<tickets, events, users, req, wrT, wrE, calls>>

\* catch (error) { await client.query('ROLLBACK'); throw error }
rollback(p) ==
  /\ pc[p] = "rollback"
  /\ Rollback(p, result[p])
  /\ UNCHANGED <<users, calls>>

\* COMMIT: the transaction's writes become the committed rows
Commit(p, outcome) ==
  /\ tickets' = txTickets(p)
  /\ events' = txEvents(p)
  /\ Release(p, outcome)

\* ------------------------------------------- BookingService.reserveTickets
\* the lookup of the event left out: BEGIN whatever the eventId
reserveTickets_begin_eventUnchecked(p, userId, eventId, demand) ==
  /\ pc[p] = "idle"
  /\ calls' = calls + 1
  /\ IF userId \notin DOMAIN users
       THEN /\ result' = [result EXCEPT ![p] = UserNotFound]
            /\ UNCHANGED <<pc, req>>
       ELSE /\ result' = [result EXCEPT ![p] = NoResult]
            /\ pc' = [pc EXCEPT ![p] = "lockEvent"]
            /\ req' = [req EXCEPT ![p] =
                         [op |-> "reserve", userId |-> userId,
                          eventId |-> eventId, tickets |-> demand,
                          ticketIds |-> <<>>, paymentSimulation |-> "success"]]
  /\ UNCHANGED <<tickets, events, users, i, j, reservedTickets, verified,
                 user, wrT, wrE, lockT, lockE>>

\* findById(userId), findById(eventId), pool.connect(), BEGIN
reserveTickets_begin(p, userId, eventId, demand) ==
  /\ pc[p] = "idle"
  /\ calls' = calls + 1
  /\ IF userId \notin DOMAIN users
       THEN /\ result' = [result EXCEPT ![p] = UserNotFound]
            /\ UNCHANGED <<pc, req>>
     ELSE IF eventId \notin DOMAIN events
       THEN /\ result' = [result EXCEPT ![p] = EventNotFound]
            /\ UNCHANGED <<pc, req>>
     ELSE /\ result' = [result EXCEPT ![p] = NoResult]
          /\ pc' = [pc EXCEPT ![p] = "lockEvent"]
          /\ req' = [req EXCEPT ![p] =
                       [op |-> "reserve", userId |-> userId,
                        eventId |-> eventId, tickets |-> demand,
                        ticketIds |-> <<>>, paymentSimulation |-> "success"]]
  /\ UNCHANGED <<tickets, events, users, i, j, reservedTickets, verified,
                 user, wrT, wrE, lockT, lockE>>

\* the event row read without FOR UPDATE: no lock, no wait
reserveTickets_lockEvent_noLock(p) ==
  /\ pc[p] = "lockEvent"
  /\ i' = [i EXCEPT ![p] = 1]
  /\ pc' = [pc EXCEPT ![p] =
              IF Len(req[p].tickets) = 0 THEN "decrement" ELSE "check"]
  /\ UNCHANGED <<tickets, events, users, req, j, reservedTickets, verified,
                 user, wrT, wrE, lockT, lockE, result, calls>>

\* FOR UPDATE taken as a lock on the whole events table
reserveTickets_lockEvent_anyEvent(p) ==
  /\ pc[p] = "lockEvent"
  /\ \A e \in DOMAIN lockE : lockE[e] \in {NULL, p}
  /\ lockE' = [lockE EXCEPT ![req[p].eventId] = p]
  /\ i' = [i EXCEPT ![p] = 1]
  /\ pc' = [pc EXCEPT ![p] =
              IF Len(req[p].tickets) = 0 THEN "decrement" ELSE "check"]
  /\ UNCHANGED <<tickets, events, users, req, j, reservedTickets, verified,
                 user, wrT, wrE, lockT, result, calls>>

\* SELECT * FROM events WHERE id = $1 FOR UPDATE: waits for the row lock
reserveTickets_lockEvent(p) ==
  /\ pc[p] = "lockEvent"
  /\ lockE[req[p].eventId] \in {NULL, p}
  /\ lockE' = [lockE EXCEPT ![req[p].eventId] = p]
  /\ i' = [i EXCEPT ![p] = 1]
  /\ pc' = [pc EXCEPT ![p] =
              IF Len(req[p].tickets) = 0 THEN "decrement" ELSE "check"]
  /\ UNCHANGED <<tickets, events, users, req, j, reservedTickets, verified,
                 user, wrT, wrE, lockT, result, calls>>

\* the comparison off by one
insufficient_offByOne(availableCount, quantity) == availableCount <= quantity

\* if (availableCount < quantity) throw
insufficient(availableCount, quantity) == availableCount < quantity

\* the position after the demand entry i is done
NextEntry(p) ==
  /\ i' = [i EXCEPT ![p] = i[p] + 1]
  /\ j' = [j EXCEPT ![p] = 0]
  /\ pc' = [pc EXCEPT ![p] =
              IF i[p] = Len(req[p].tickets) THEN "decrement" ELSE "check"]

\* availableCount < quantity ? throw Insufficient : enter the lease loop
reserveTickets_check(p) ==
  /\ pc[p] = "check"
  /\ LET tier == req[p].tickets[i[p]].tier
         quantity == req[p].tickets[i[p]].quantity
         availableCount == getAvailableCountByTier(req[p].eventId, tier)
     IN IF insufficient(availableCount, quantity)
          THEN /\ Throw(p, Insufficient(tier, availableCount, quantity))
               /\ UNCHANGED <<lockT, lockE>>
        ELSE IF quantity = 0
          THEN /\ NextEntry(p)
               /\ UNCHANGED <<tickets, events, users, req, reservedTickets,
                              verified, user, wrT, wrE, lockT, lockE, result,
                              calls>>
        ELSE /\ pc' = [pc EXCEPT ![p] = "reserve"]
             /\ j' = [j EXCEPT ![p] = 0]
             /\ UNCHANGED <<tickets, events, users, req, i, reservedTickets,
                            verified, user, wrT, wrE, lockT, lockE, result,
                            calls>>

\* one turn of: for (let i = 0; i < quantity; i++) reserveTicket(...)
reserveTickets_reserve(p) ==
  /\ pc[p] = "reserve"
  /\ LET tier == req[p].tickets[i[p]].tier
         quantity == req[p].tickets[i[p]].quantity
         id == reserveTicket(p, req[p].eventId, tier)
         ticket == reservedRow(txTickets(p)[id], req[p].userId)
     IN IF id = NULL
          THEN /\ Throw(p, FailedToReserve(tier))
               /\ UNCHANGED <<lockT, lockE>>
        ELSE /\ wrT' = [wrT EXCEPT ![p] = (id :> ticket) @@ wrT[p]]
             /\ lockT' = [lockT EXCEPT ![id] = p]
             /\ reservedTickets' =
                  [reservedTickets EXCEPT ![p] = Append(@, ticket)]
             /\ IF j[p] + 1 < quantity
                  THEN /\ j' = [j EXCEPT ![p] = j[p] + 1]
                       /\ UNCHANGED <<i, pc>>
                  ELSE NextEntry(p)
             /\ UNCHANGED <<tickets, events, users, req, verified, user, wrE,
                            lockE, result, calls>>

\* updateAvailableTickets(eventId, -vipCount, -frontRowCount, -gaCount)
reserveTickets_decrement(p) ==
  /\ pc[p] = "decrement"
  /\ LET vipCount == FindQuantity(req[p].tickets, "VIP")
         frontRowCount == FindQuantity(req[p].tickets, "Front Row")
         gaCount == FindQuantity(req[p].tickets, "GA")
         e == req[p].eventId
     IN wrE' = [wrE EXCEPT ![p] =
                  (e :> updateAvailableTickets(txEvents(p)[e], -vipCount,
                                               -frontRowCount, -gaCount))
                  @@ wrE[p]]
  /\ pc' = [pc EXCEPT ![p] = "commit"]
  /\ UNCHANGED <<tickets, events, users, req, i, j, reservedTickets,
                 verified, user, wrT, lockT, lockE, result, calls>>

\* COMMIT; return { success: true, reservedTickets }
reserveTickets_commit(p) ==
  /\ pc[p] = "commit"
  /\ req[p].op = "reserve"
  /\ Commit(p, Reserved(reservedTickets[p]))
  /\ UNCHANGED <<users, calls>>

\* ------------------------------------------- BookingService.confirmBooking
\* a payment that is declined whatever was asked
simulatePayment_alwaysFails(paymentSimulation) == FALSE

\* simulatePayment(result): result === 'success', after the delay
simulatePayment(paymentSimulation) == paymentSimulation = "success"

\* findById(userId), pool.connect(), BEGIN
confirmBooking_begin(p, userId, ticketIds, paymentSimulation) ==
  /\ pc[p] = "idle"
  /\ calls' = calls + 1
  /\ IF userId \notin DOMAIN users
       THEN /\ result' = [result EXCEPT ![p] = UserNotFound]
            /\ UNCHANGED <<pc, req, user, i>>
       ELSE /\ result' = [result EXCEPT ![p] = NoResult]
            /\ req' = [req EXCEPT ![p] =
                         [op |-> "confirm", userId |-> userId,
                          eventId |-> NULL, tickets |-> <<>>,
                          ticketIds |-> ticketIds,
                          paymentSimulation |-> paymentSimulation]]
            /\ user' = [user EXCEPT ![p] = users[userId]]
            /\ i' = [i EXCEPT ![p] = 1]
            /\ pc' = [pc EXCEPT ![p] =
                        IF Len(ticketIds) = 0 THEN "payment" ELSE "verify"]
  /\ UNCHANGED <<tickets, events, users, j, reservedTickets, verified, wrT,
                 wrE, lockT, lockE>>

\* the status check made before the ownership check
Verdict_statusFirst(p, ticketId) ==
  LET ticket == findByIdForUpdate(p, ticketId)
  IN IF ticketId \notin TicketIds THEN TicketNotFound(ticketId)
     ELSE IF ticket.status # "pending"
       THEN NotPending(ticketId, ticket.status)
     ELSE IF ticket.user_id # req[p].userId THEN NotThisUser(ticketId)
     ELSE NoResult

\* the ownership check refusing only tickets that nobody owns
Verdict_anyOwner(p, ticketId) ==
  LET ticket == findByIdForUpdate(p, ticketId)
  IN IF ticketId \notin TicketIds THEN TicketNotFound(ticketId)
     ELSE IF ticket.user_id = NULL THEN NotThisUser(ticketId)
     ELSE IF ticket.status # "pending"
       THEN NotPending(ticketId, ticket.status)
     ELSE NoResult

\* the ownership check left out
Verdict_ownerUnchecked(p, ticketId) ==
  LET ticket == findByIdForUpdate(p, ticketId)
  IN IF ticketId \notin TicketIds THEN TicketNotFound(ticketId)
     ELSE IF ticket.status # "pending"
       THEN NotPending(ticketId, ticket.status)
     ELSE NoResult

\* the status check left out
Verdict_noStatusCheck(p, ticketId) ==
  LET ticket == findByIdForUpdate(p, ticketId)
  IN IF ticketId \notin TicketIds THEN TicketNotFound(ticketId)
     ELSE IF ticket.user_id # req[p].userId THEN NotThisUser(ticketId)
     ELSE NoResult

\* the three checks on the row findByIdForUpdate returned: the error thrown,
\* or NoResult when the row passes
Verdict(p, ticketId) ==
  LET ticket == findByIdForUpdate(p, ticketId)
  IN IF ticketId \notin TicketIds THEN TicketNotFound(ticketId)
     ELSE IF ticket.user_id # req[p].userId THEN NotThisUser(ticketId)
     ELSE IF ticket.status # "pending"
       THEN NotPending(ticketId, ticket.status)
     ELSE NoResult

\* one turn of the verification loop: SELECT ... FOR UPDATE waits for the
\* row lock, then the checks
\* the verification loop reading rows without FOR UPDATE: it neither waits
\* for a row another transaction has locked nor locks the row itself
confirmBooking_verify_noLock(p) ==
  /\ pc[p] = "verify"
  /\ LET ticketId == req[p].ticketIds[i[p]]
     IN IF Verdict(p, ticketId) # NoResult
          THEN /\ Throw(p, Verdict(p, ticketId))
               /\ UNCHANGED <<lockT, lockE>>
          ELSE /\ verified' = [verified EXCEPT ![p] =
                                 Append(@, findByIdForUpdate(p, ticketId))]
               /\ i' = [i EXCEPT ![p] = i[p] + 1]
               /\ pc' = [pc EXCEPT ![p] =
                           IF i[p] = Len(req[p].ticketIds)
                             THEN "payment" ELSE "verify"]
               /\ UNCHANGED <<tickets, events, users, req, j,
                              reservedTickets, user, wrT, wrE, lockT, lockE,
                              result, calls>>

confirmBooking_verify(p) ==
  /\ pc[p] = "verify"
  /\ LET ticketId == req[p].ticketIds[i[p]]
     IN /\ ticketId \in TicketIds => lockT[ticketId] \in {NULL, p}
        /\ IF Verdict(p, ticketId) # NoResult
             THEN /\ Throw(p, Verdict(p, ticketId))
                  /\ lockT' = [t \in TicketIds |->
                                 IF t = ticketId THEN p ELSE lockT[t]]
                  /\ UNCHANGED lockE
             ELSE /\ lockT' = [lockT EXCEPT ![ticketId] = p]
                  /\ verified' = [verified EXCEPT ![p] =
                                    Append(@, findByIdForUpdate(p, ticketId))]
                  /\ i' = [i EXCEPT ![p] = i[p] + 1]
                  /\ pc' = [pc EXCEPT ![p] =
                              IF i[p] = Len(req[p].ticketIds)
                                THEN "payment" ELSE "verify"]
                  /\ UNCHANGED <<tickets, events, users, req, j,
                                 reservedTickets, user, wrT, wrE, lockE,
                                 result, calls>>

\* the rows of p's transaction after cancelReservation (payment failed) or
\* confirmBooking (payment succeeded) was applied to every id of ticketIds
Updated(p, paymentSuccess) ==
  [t \in DOMAIN wrT[p] \cup (Range(req[p].ticketIds) \cap TicketIds) |->
     IF t \in Range(req[p].ticketIds)
       THEN IF paymentSuccess THEN bookTicket(txTickets(p)[t])
                              ELSE cancelReservation(txTickets(p)[t])
       ELSE wrT[p][t]]

\* simulatePayment, then cancelReservation or confirmBooking for every id
confirmBooking_payment(p) ==
  /\ pc[p] = "payment"
  /\ IF ~simulatePayment(req[p].paymentSimulation)
       THEN /\ wrT' = [wrT EXCEPT ![p] = Updated(p, FALSE)]
            /\ pc' = [pc EXCEPT ![p] = "restore"]
       ELSE /\ wrT' = [wrT EXCEPT ![p] = Updated(p, TRUE)]
            /\ pc' = [pc EXCEPT ![p] = "updateTickets"]
  /\ UNCHANGED <<tickets, events, users, req, i, j, reservedTickets,
                 verified, user, wrE, lockT, lockE, result, calls>>

\* the counters written without the event's row lock: no wait, no lock
confirmBooking_restore_noLock(p) ==
  /\ pc[p] = "restore"
  /\ IF Len(verified[p]) = 0
       THEN /\ Throw(p, TypeError)
            /\ UNCHANGED <<lockT, lockE>>
       ELSE LET vipCount == FilterCount(verified[p], "VIP")
                frontRowCount == FilterCount(verified[p], "Front Row")
                gaCount == FilterCount(verified[p], "GA")
                e == verified[p][1].event_id
            IN /\ wrE' = [wrE EXCEPT ![p] =
                            (e :> updateAvailableTickets(txEvents(p)[e],
                                    vipCount, frontRowCount, gaCount))
                            @@ wrE[p]]
               /\ pc' = [pc EXCEPT ![p] = "commit"]
               /\ UNCHANGED <<tickets, events, users, req, i, j,
                              reservedTickets, verified, user, wrT, lockT,
                              lockE, result, calls>>

\* updateAvailableTickets(tickets[0].event_id, vipCount, frontRowCount,
\* gaCount): the UPDATE waits for the event's row lock
confirmBooking_restore(p) ==
  /\ pc[p] = "restore"
  /\ IF Len(verified[p]) = 0
       THEN /\ Throw(p, TypeError)
            /\ UNCHANGED <<lockT, lockE>>
       ELSE LET vipCount == FilterCount(verified[p], "VIP")
                frontRowCount == FilterCount(verified[p], "Front Row")
                gaCount == FilterCount(verified[p], "GA")
                e == verified[p][1].event_id
            IN /\ lockE[e] \in {NULL, p}
               /\ lockE' = [lockE EXCEPT ![e] = p]
               /\ wrE' = [wrE EXCEPT ![p] =
                            (e :> updateAvailableTickets(txEvents(p)[e],
                                    vipCount, frontRowCount, gaCount))
                            @@ wrE[p]]
               /\ pc' = [pc EXCEPT ![p] = "commit"]
               /\ UNCHANGED <<tickets, events, users, req, i, j,
                              reservedTickets, verified, user, wrT, lockT,
                              result, calls>>

\* updateTickets(userId, newTicketIds): the previous content dropped
updateTickets_overwrite(p) ==
  [users EXCEPT ![req[p].userId] =
     newTicketIds([k \in DOMAIN req[p].ticketIds |->
                     txTickets(p)[req[p].ticketIds[k]]])]

\* userRepository.updateTickets(userId, [...userTickets, ...newTicketIds]),
\* sent through the pool: committed at once
updateTickets(p) ==
  [users EXCEPT ![req[p].userId] =
     user[p] \o newTicketIds([k \in DOMAIN req[p].ticketIds |->
                                 txTickets(p)[req[p].ticketIds[k]]])]

confirmBooking_updateTickets(p) ==
  /\ pc[p] = "updateTickets"
  /\ users' = updateTickets(p)
  /\ pc' = [pc EXCEPT ![p] = "commit"]
  /\ UNCHANGED <<tickets, events, req, i, j, reservedTickets, verified,
                 user, wrT, wrE, lockT, lockE, result, calls>>

\* COMMIT; return the confirmed tickets, or that the tickets were released
confirmBooking_commit(p) ==
  /\ pc[p] = "commit"
  /\ req[p].op = "confirm"
  /\ Commit(p, IF simulatePayment(req[p].paymentSimulation)
                 THEN Confirmed([k \in DOMAIN req[p].ticketIds |->
                                   txTickets(p)[req[p].ticketIds[k]]])
                 ELSE Released)
  /\ UNCHANGED <<users, calls>>

\* ------------------------------------------------------- specification
Next ==
  \E p \in Procs :
    \/ /\ calls < MaxCalls
       /\ \E userId \in UserArgs, eventId \in EventArgs, demand \in Demands :
            reserveTickets_begin(p, userId, eventId, demand)
    \/ reserveTickets_lockEvent(p)
    \/ reserveTickets_check(p)
    \/ reserveTickets_reserve(p)
    \/ reserveTickets_decrement(p)
    \/ reserveTickets_commit(p)
    \/ rollback(p)
    \/ /\ calls < MaxCalls
       /\ \E userId \in UserArgs, ticketIds \in TicketIdLists,
             paymentSimulation \in Payments :
            confirmBooking_begin(p, userId, ticketIds, paymentSimulation)
    \/ confirmBooking_verify(p)
    \/ confirmBooking_payment(p)
    \/ confirmBooking_restore(p)
    \/ confirmBooking_updateTickets(p)
    \/ confirmBooking_commit(p)

Spec == Init /\ [][Next]_vars

\* Concurrent reservations only: every caller makes one reserveTickets call,
\* with any demand, and the calls interleave freely.
NextReserve ==
  \E p \in Procs :
    \/ /\ result[p] = NoResult
       /\ \E userId \in UserIds, eventId \in EventIds, demand \in Demands :
            reserveTickets_begin(p, userId, eventId, demand)
    \/ reserveTickets_lockEvent(p)
    \/ reserveTickets_check(p)
    \/ reserveTickets_reserve(p)
    \/ reserveTickets_decrement(p)
    \/ reserveTickets_commit(p)
    \/ rollback(p)

SpecReserve == Init /\ [][NextReserve]_vars

\* The race for single tickets: every caller makes one reserveTickets call
\* asking for one ticket of one tier.
OneTicket(tier) == <<[tier |-> tier, quantity |-> 1]>>

NextRace ==
  \E p \in Procs :
    \/ /\ result[p] = NoResult
       /\ \E userId \in UserIds, eventId \in EventIds, tier \in DemandTiers :
            reserveTickets_begin(p, userId, eventId, OneTicket(tier))
    \/ reserveTickets_lockEvent(p)
    \/ reserveTickets_check(p)
    \/ reserveTickets_reserve(p)
    \/ reserveTickets_decrement(p)
    \/ reserveTickets_commit(p)
    \/ rollback(p)

SpecRace == Init /\ [][NextRace]_vars

\* Two events: the tables when a second event row exists and the GA tickets
\* were created for it, the VIP tickets for event 1.  Ticket 1 (event 1) and
\* the last ticket (event 2) may already be held by user 1.
TwoEvents == {1, 2}
eventOfTwo(id) == IF tierOf(id) = "GA" THEN 2 ELSE 1
SeedHeld == SUBSET {1, NumVip + NumGa}

InitTwoEvents ==
  /\ \E held \in SeedHeld :
       /\ tickets = [t \in TicketIds |->
                       [Row(t, IF t \in held THEN "pending" ELSE "available",
                            IF t \in held THEN 1 ELSE NULL, FALSE)
                          EXCEPT !.event_id = eventOfTwo(t)]]
       /\ events = [e \in TwoEvents |->
                      Counters(
                        Cardinality({t \in TicketIds \ held :
                          eventOfTwo(t) = e /\ tierOf(t) = "VIP"}),
                        0,
                        Cardinality({t \in TicketIds \ held :
                          eventOfTwo(t) = e /\ tierOf(t) = "GA"}))]
  /\ users = [u \in UserIds |-> <<>>]
  /\ pc = [p \in Procs |-> "idle"]
  /\ req = [p \in Procs |-> NoRequest]
  /\ i = [p \in Procs |-> 0]
  /\ j = [p \in Procs |-> 0]
  /\ reservedTickets = [p \in Procs |-> <<>>]
  /\ verified = [p \in Procs |-> <<>>]
  /\ user = [p \in Procs |-> <<>>]
  /\ wrT = [p \in Procs |-> <<>>]
  /\ wrE = [p \in Procs |-> <<>>]
  /\ lockT = [t \in TicketIds |-> NULL]
  /\ lockE = [e \in TwoEvents |-> NULL]
  /\ result = [p \in Procs |-> NoResult]
  /\ calls = 0

NextTwoEvents ==
  \E p \in Procs :
    \/ /\ calls < MaxCalls
       /\ \E userId \in UserIds, eventId \in TwoEvents, demand \in Demands :
            reserveTickets_begin(p, userId, eventId, demand)
    \/ reserveTickets_lockEvent(p)
    \/ reserveTickets_check(p)
    \/ reserveTickets_reserve(p)
    \/ reserveTickets_decrement(p)
    \/ reserveTickets_commit(p)
    \/ rollback(p)
    \/ /\ calls < MaxCalls
       /\ \E userId \in UserIds, ticketIds \in TicketIdLists,
             paymentSimulation \in Payments :
            confirmBooking_begin(p, userId, ticketIds, paymentSimulation)
    \/ confirmBooking_verify(p)
    \/ confirmBooking_payment(p)
    \/ confirmBooking_restore(p)
    \/ confirmBooking_updateTickets(p)
    \/ confirmBooking_commit(p)

SpecTwoEvents == InitTwoEvents /\ [][NextTwoEvents]_vars

\* A statement of the success path of confirmBooking is rejected by the
\* database (connection lost, COMMIT refused): the confirmBooking loop, the
\* updateTickets query or the final COMMIT throws, and control goes to the
\* catch block.  At "commit" the updateTickets query has already run.
confirmBooking_queryFails(p) ==
  /\ req[p].op = "confirm"
  /\ simulatePayment(req[p].paymentSimulation)
  /\ pc[p] \in {"payment", "updateTickets", "commit"}
  /\ Throw(p, StorageError)
  /\ UNCHANGED <<lockT, lockE>>

\* Concurrent confirmations: the VIP tickets may be held by user 1, the
\* last ticket may already have been bought by user 1; every caller makes
\* one confirmBooking call, the calls interleave freely, and a query of the
\* success path may fail.
SeedHeldVip == SUBSET (1..NumVip)

InitConfirm ==
  /\ \E held \in SeedHeldVip, bought \in BOOLEAN :
       /\ tickets = [t \in TicketIds |->
                       IF t \in held THEN Row(t, "pending", 1, FALSE)
                       ELSE IF bought /\ t = NumVip + NumGa
                         THEN Row(t, "booked", 1, TRUE)
                       ELSE Row(t, "available", NULL, FALSE)]
       /\ events = [e \in EventIds |->
                      Counters(NumVip - Cardinality(held), 0,
                               IF bought THEN NumGa - 1 ELSE NumGa)]
       /\ users = [u \in UserIds |->
                     IF u = 1 /\ bought THEN <<ToString(NumVip + NumGa)>>
                                        ELSE <<>>]
  /\ pc = [p \in Procs |-> "idle"]
  /\ req = [p \in Procs |-> NoRequest]
  /\ i = [p \in Procs |-> 0]
  /\ j = [p \in Procs |-> 0]
  /\ reservedTickets = [p \in Procs |-> <<>>]
  /\ verified = [p \in Procs |-> <<>>]
  /\ user = [p \in Procs |-> <<>>]
  /\ wrT = [p \in Procs |-> <<>>]
  /\ wrE = [p \in Procs |-> <<>>]
  /\ lockT = [t \in TicketIds |-> NULL]
  /\ lockE = [e \in EventIds |-> NULL]
  /\ result = [p \in Procs |-> NoResult]
  /\ calls = 0

NextConfirm ==
  \E p \in Procs :
    \/ /\ result[p] = NoResult
       /\ \E userId \in UserIds, ticketIds \in TicketIdLists,
             paymentSimulation \in Payments :
            confirmBooking_begin(p, userId, ticketIds, paymentSimulation)
    \/ confirmBooking_verify(p)
    \/ confirmBooking_payment(p)
    \/ confirmBooking_restore(p)
    \/ confirmBooking_updateTickets(p)
    \/ confirmBooking_commit(p)
    \/ confirmBooking_queryFails(p)
    \/ rollback(p)

SpecConfirm == InitConfirm /\ [][NextConfirm]_vars

\* ------------------------------------------------------------ properties
Quiescent == \A p \in Procs : pc[p] = "idle"
Ids(rows) == [k \in DOMAIN rows |-> rows[k].id]
IdSet(rows) == {rows[k].id : k \in DOMAIN rows}
NoDuplicates(s) == \A k, m \in DOMAIN s : s[k] = s[m] => k = m
TicketsOfTier(e, tier) ==
  {t \in TicketIds : tickets[t].event_id = e /\ tickets[t].tier = tier}
CountStatus(e, tier, status) ==
  Cardinality({t \in TicketsOfTier(e, tier) : tickets[t].status = status})
\* a step taken by caller p
StepOf(p) == <<pc[p], i[p], j[p]>>' # <<pc[p], i[p], j[p]>>

\* C1: with no transaction in flight, every event's available counter of
\* every tier equals the number of its tickets of that tier that are
\* 'available'.
AvailableCountMatchesTickets ==
  Quiescent =>
    \A e \in EventIds, tier \in TicketTier :
      available(events[e], tier) = CountStatus(e, tier, "available")

\* C2: conservation: with no transaction in flight, available counter +
\* pending tickets + booked tickets = tickets created, for every tier.
Conservation ==
  Quiescent =>
    \A e \in EventIds, tier \in TicketTier :
      available(events[e], tier) + CountStatus(e, tier, "pending")
        + CountStatus(e, tier, "booked")
      = Cardinality(TicketsOfTier(e, tier))

\* the rows a reserveTickets call of p holds: leased so far while it runs,
\* returned once it has committed
Granted(p) ==
  IF pc[p] = "idle" /\ result[p].type = "reserved" THEN result[p].tickets
  ELSE reservedTickets[p]

\* C3: no double allocation: under every interleaving of concurrent
\* reserveTickets calls the tickets granted to different calls are disjoint,
\* no call is granted a ticket twice, a ticket is leased only while its
\* committed row is 'available', and every returned ticket is committed
\* 'pending' for the user of the call that returned it and for nobody else.
NoDoubleAllocation ==
  /\ \A p, q \in Procs :
       p # q => IdSet(Granted(p)) \cap IdSet(Granted(q)) = {}
  /\ \A p \in Procs :
       /\ NoDuplicates(Ids(Granted(p)))
       /\ \A k \in DOMAIN reservedTickets[p] :
            /\ tickets[reservedTickets[p][k].id].status = "available"
            /\ lockT[reservedTickets[p][k].id] = p
       /\ pc[p] = "idle" /\ result[p].type = "reserved" =>
            \A k \in DOMAIN result[p].tickets :
              /\ tickets[result[p].tickets[k].id] = result[p].tickets[k]
              /\ result[p].tickets[k].status = "pending"

\* two calls have returned tickets of the same tier
WitnessNoDoubleAllocation ==
  \E p, q \in Procs :
    /\ p # q
    /\ pc[p] = "idle" /\ result[p].type = "reserved"
    /\ pc[q] = "idle" /\ result[q].type = "reserved"
    /\ \E k \in DOMAIN result[p].tickets, m \in DOMAIN result[q].tickets :
         result[p].tickets[k].tier = result[q].tickets[m].tier

\* C4: all-or-nothing reservation: no step of a reserveTickets call other
\* than its COMMIT changes a committed ticket or counter; the step that
\* throws and the ROLLBACK after it change none, and after the ROLLBACK the
\* call holds no write and no lock, however many tickets it had leased.
AllOrNothingReservation ==
  [][\A p \in Procs :
       req[p].op = "reserve" /\ StepOf(p) /\ pc[p] # "commit" =>
         /\ tickets' = tickets
         /\ events' = events
         /\ users' = users
         /\ pc[p] = "rollback" =>
              /\ pc'[p] = "idle"
              /\ wrT'[p] = <<>> /\ wrE'[p] = <<>>
              /\ \A t \in TicketIds : lockT'[t] # p
              /\ \A e \in EventIds : lockE'[e] # p]_vars

\* a reservation has thrown after it had flipped a ticket to 'pending'
WitnessAllOrNothing ==
  \E p \in Procs :
    /\ req[p].op = "reserve"
    /\ pc[p] = "rollback"
    /\ \E t \in DOMAIN wrT[p] : wrT[p][t].status = "pending"

\* the tickets of the tier that were 'available' before the callers' single
\* calls: those still available and those the calls returned
AvailableBefore(tier) ==
  {t \in TicketsOfTier(1, tier) :
     \/ tickets[t].status = "available"
     \/ \E p \in Procs : result[p].type = "reserved"
                         /\ t \in IdSet(result[p].tickets)}
Succeeded == {p \in Procs : result[p].type = "reserved"}
\* every caller's call is over and was about the tier
AllDoneAbout(tier) ==
  \A p \in Procs :
    /\ pc[p] = "idle"
    /\ \/ result[p].type = "reserved" /\ Len(result[p].tickets) = 1
          /\ result[p].tickets[1].tier = tier
       \/ result[p].type \in {"Insufficient", "FailedToReserve"}
          /\ result[p].tier = tier

Min(a, b) == IF a < b THEN a ELSE b

\* C6: N concurrent calls each asking for one ticket of a tier with M
\* available tickets: exactly min(N, M) succeed, with different tickets.
NoOversellingNoSpuriousFailure ==
  \A tier \in DemandTiers :
    AllDoneAbout(tier) =>
      /\ Cardinality(Succeeded)
           = Min(NumProcs, Cardinality(AvailableBefore(tier)))
      /\ \A p, q \in Succeeded :
           p # q => result[p].tickets[1].id # result[q].tickets[1].id

\* as many tickets as callers were available and every caller got one
WitnessAllSucceed ==
  \E tier \in DemandTiers :
    /\ AllDoneAbout(tier)
    /\ Cardinality(AvailableBefore(tier)) >= NumProcs
    /\ Succeeded = Procs

Strings(ids) == [k \in DOMAIN ids |-> ToString(ids[k])]

\* C7: round trip on success: when confirmBooking with payment success is
\* given distinct ids (the ids a reservation returned), its write of the
\* user's list stores the list as the call read it followed by exactly those
\* ids, once each and in order, and its COMMIT turns every named ticket from
\* 'pending' to 'booked' with the user_id it had, the caller's.
RoundTripSuccess ==
  [][\A p \in Procs :
       req[p].op = "confirm" /\ NoDuplicates(req[p].ticketIds) =>
         /\ pc[p] = "updateTickets" /\ pc'[p] = "commit" =>
              /\ users'[req[p].userId]
                   = user[p] \o Strings(req[p].ticketIds)
              /\ \A u \in UserIds \ {req[p].userId} : users'[u] = users[u]
         /\ pc[p] = "commit" /\ pc'[p] = "idle"
              /\ simulatePayment(req[p].paymentSimulation) =>
              /\ users' = users
              /\ \A k \in DOMAIN req[p].ticketIds :
                   LET id == req[p].ticketIds[k]
                   IN /\ tickets[id].status = "pending"
                      /\ tickets'[id].status = "booked"
                      /\ tickets'[id].user_id = tickets[id].user_id
                      /\ tickets'[id].user_id = req[p].userId]_vars

\* one caller's reservation returned tickets and another caller's
\* confirmation of exactly those ids has booked them
WitnessRoundTripSuccess ==
  \E p, q \in Procs :
    /\ pc[p] = "idle" /\ result[p].type = "confirmed"
    /\ pc[q] = "idle" /\ result[q].type = "reserved"
    /\ result[q].tickets # <<>>
    /\ Ids(result[p].tickets) = Ids(result[q].tickets)
    /\ \A k \in DOMAIN result[p].tickets :
         /\ tickets[result[p].tickets[k].id].status = "booked"
         /\ \E m \in DOMAIN users[result[p].tickets[k].user_id] :
              users[result[p].tickets[k].user_id][m]
                = ToString(result[p].tickets[k].id)

\* C8 as stated: a reservation by q followed by confirmBooking with payment
\* failure on exactly the returned ids, the only two calls made, leaves every
\* tier's counter at its value before the reservation and every named
\* ticket 'available' with user_id null.  Init is consistent, so before the
\* reservation a tier's counter was the number of its tickets then
\* available: those available now and those the reservation took.
ReleaseRestoresCounters ==
  [][\A p, q \in Procs :
       /\ calls = 2 /\ p # q
       /\ pc[q] = "idle" /\ result[q].type = "reserved"
       /\ req[p].op = "confirm" /\ req[p].ticketIds = Ids(result[q].tickets)
       /\ ~simulatePayment(req[p].paymentSimulation)
       /\ pc[p] = "commit" /\ pc'[p] = "idle"
       => /\ \A tier \in TicketTier :
               available(events'[1], tier)
                 = CountStatus(1, tier, "available")
                   + FilterCount(result[q].tickets, tier)
          /\ \A k \in DOMAIN req[p].ticketIds :
               /\ tickets'[req[p].ticketIds[k]].status = "available"
               /\ tickets'[req[p].ticketIds[k]].user_id = NULL]_vars

\* the step of p's verification loop that looks at a ticket whose row has
\* the status
Examines(p, status) ==
  /\ pc[p] = "verify"
  /\ StepOf(p)
  /\ req[p].ticketIds[i[p]] \in TicketIds
  /\ tickets[req[p].ticketIds[i[p]]].status = status
NothingChanged ==
  tickets' = tickets /\ events' = events /\ users' = users

\* C9 as stated: confirmBooking naming a ticket that is 'booked' or
\* 'available' fails with the not-pending error carrying the ticket's
\* status, and changes nothing.
ReconfirmFailsInvalidState ==
  [][\A p \in Procs :
       /\ \A status \in {"booked", "available"} :
            Examines(p, status) =>
              /\ pc'[p] = "rollback"
              /\ result'[p] = NotPending(req[p].ticketIds[i[p]], status)
       /\ req[p].op = "confirm" /\ StepOf(p)
            /\ (pc'[p] = "rollback" \/ pc[p] = "rollback") =>
            NothingChanged]_vars

\* C9 amended: naming a ticket already 'booked' by the caller fails with the
\* not-pending error carrying 'booked'; naming an 'available' ticket, whose
\* user_id is null, or a ticket booked by someone else fails with the
\* does-not-belong error; in every case nothing is changed.
ReconfirmRejected ==
  [][\A p \in Procs :
       /\ Examines(p, "booked") =>
            /\ pc'[p] = "rollback"
            /\ result'[p] =
                 IF tickets[req[p].ticketIds[i[p]]].user_id = req[p].userId
                   THEN NotPending(req[p].ticketIds[i[p]], "booked")
                   ELSE NotThisUser(req[p].ticketIds[i[p]])
       /\ Examines(p, "available") =>
            /\ pc'[p] = "rollback"
            /\ result'[p] = NotThisUser(req[p].ticketIds[i[p]])
       /\ req[p].op = "confirm" /\ StepOf(p)
            /\ (pc'[p] = "rollback" \/ pc[p] = "rollback") =>
            NothingChanged]_vars

\* one call was refused for a ticket its user had already booked, another
\* for a ticket that is available
WitnessReconfirmRejected ==
  \E p, q \in Procs :
    /\ pc[p] = "idle" /\ result[p].type = "NotPending"
    /\ result[p].status = "booked"
    /\ tickets[result[p].ticketId].status = "booked"
    /\ pc[q] = "idle" /\ result[q].type = "NotThisUser"
    /\ tickets[result[q].ticketId].status = "available"

\* C10: a ticket's committed status changes only available -> pending at the
\* COMMIT of a reservation, pending -> booked at the COMMIT of a confirmation
\* with payment success, pending -> available at the COMMIT of one with
\* payment failure; never available -> booked, and never from 'booked'.
CommitBy(p, op) ==
  pc[p] = "commit" /\ pc'[p] = "idle" /\ req[p].op = op
TicketStateMachine ==
  [][\A t \in TicketIds :
       tickets'[t].status # tickets[t].status =>
         \/ /\ tickets[t].status = "available"
            /\ tickets'[t].status = "pending"
            /\ \E p \in Procs : CommitBy(p, "reserve")
         \/ /\ tickets[t].status = "pending"
            /\ tickets'[t].status = "booked"
            /\ \E p \in Procs :
                 /\ CommitBy(p, "confirm")
                 /\ simulatePayment(req[p].paymentSimulation)
         \/ /\ tickets[t].status = "pending"
            /\ tickets'[t].status = "available"
            /\ \E p \in Procs :
                 /\ CommitBy(p, "confirm")
                 /\ ~simulatePayment(req[p].paymentSimulation)]_vars

\* a reserved ticket has become booked and a pending one has been released
WitnessTicketStateMachine ==
  /\ \E p \in Procs :
       /\ pc[p] = "idle" /\ result[p].type = "reserved"
       /\ \E k \in DOMAIN result[p].tickets :
            tickets[result[p].tickets[k].id].status = "booked"
  /\ \E p \in Procs : pc[p] = "idle" /\ result[p].type = "confirmed"

\* C11: in every committed state a ticket has a user_id exactly when its
\* status is 'pending' or 'booked', and has booked_at set exactly when its
\* status is 'booked'.
OwnerAndTimestampMatchStatus ==
  \A t \in TicketIds :
    /\ tickets[t].user_id # NULL <=> tickets[t].status \in {"pending", "booked"}
    /\ tickets[t].booked_at <=> tickets[t].status = "booked"

\* reservations and confirmations of either outcome have committed: one
\* ticket is held, one was bought and one was released in this behaviour
WitnessOwnerAndTimestamp ==
  /\ Quiescent
  /\ \E t \in TicketIds : tickets[t].status = "pending"
  /\ \E p \in Procs : result[p].type = "reserved" /\ result[p].tickets # <<>>
  /\ \E p \in Procs : result[p].type \in {"confirmed", "released"}

\* where a confirmation stands once its verification loop is over
AfterVerification == {"payment", "restore", "updateTickets", "commit"}

ConfirmSuccessKeepsCounters ==
  [][\A p \in Procs :
       req[p].op = "confirm" /\ req[p].paymentSimulation = "success"
         /\ StepOf(p) =>
         /\ events' = events
         /\ wrE[p] = <<>> /\ wrE'[p] = <<>>]_vars

\* a reservation took tickets off the counter and a confirmation with
\* payment success has booked tickets of that tier; the counter is still
\* below the number of tickets created
WitnessConfirmSuccessKeepsCounters ==
  \E p, q \in Procs :
    /\ Quiescent
    /\ result[q].type = "reserved" /\ result[q].tickets # <<>>
    /\ result[p].type = "confirmed" /\ result[p].tickets # <<>>
    /\ available(events[1], result[p].tickets[1].tier)
         < Cardinality(TicketsOfTier(1, result[p].tickets[1].tier))

\* C14 as stated: a confirmBooking call, with either payment outcome,
\* changes no ticket but those it names; the only counters it changes are,
\* on the failure path, those of a named ticket's own event and tier; and
\* on the failure path it leaves every user's tickets list unchanged.
ConfirmChangesOnlyItsOwn ==
  [][\A p \in Procs :
       req[p].op = "confirm" /\ StepOf(p) =>
         /\ \A t \in TicketIds \ Range(req[p].ticketIds) :
              tickets'[t] = tickets[t]
         /\ \A e \in DOMAIN events, tier \in TicketTier :
              available(events'[e], tier) # available(events[e], tier) =>
                /\ ~simulatePayment(req[p].paymentSimulation)
                /\ \E k \in DOMAIN req[p].ticketIds :
                     /\ req[p].ticketIds[k] \in TicketIds
                     /\ tickets[req[p].ticketIds[k]].event_id = e
                     /\ tickets[req[p].ticketIds[k]].tier = tier
         /\ ~simulatePayment(req[p].paymentSimulation) =>
              users' = users]_vars

\* the quantities a demand list asks of a tier, added up
RECURSIVE SumQuantity(_, _)
SumQuantity(demand, tier) ==
  IF demand = <<>> THEN 0
  ELSE (IF Head(demand).tier = tier THEN Head(demand).quantity ELSE 0)
       + SumQuantity(Tail(demand), tier)

\* where a reservation stands between taking the event's row lock and the
\* end of its transaction
UnderEventLock == {"check", "reserve", "decrement", "commit", "rollback"}

\* C15 as stated: reservations of one event are serialized by the event's
\* row lock: while one is between its availability check and the end of its
\* transaction no other is, and it holds the lock; so the committed counters
\* change only at a reservation's COMMIT, and then by exactly the quantities
\* the call asked for: the counter after the calls is the initial value
\* minus the sum of the quantities of the calls that committed.
ReservationsSerialized ==
  [][/\ \A p \in Procs :
          req[p].op = "reserve" /\ pc[p] \in UnderEventLock =>
            /\ lockE[req[p].eventId] = p
            /\ \A q \in Procs \ {p} :
                 req[q].op = "reserve" /\ req[q].eventId = req[p].eventId =>
                   /\ pc[q] \notin UnderEventLock
                   /\ wrT[q] = <<>> /\ wrE[q] = <<>>
     /\ \A p \in Procs :
          req[p].op = "reserve" /\ StepOf(p) =>
            IF CommitBy(p, "reserve")
              THEN \A e \in DOMAIN events, tier \in TicketTier :
                     available(events'[e], tier) =
                       available(events[e], tier)
                       - (IF e = req[p].eventId
                            THEN SumQuantity(req[p].tickets, tier) ELSE 0)
              ELSE events' = events]_vars

\* the next statement of q's reserveTickets call
reserveTickets_step(q) ==
  \/ reserveTickets_lockEvent(q)
  \/ reserveTickets_check(q)
  \/ reserveTickets_reserve(q)
  \/ reserveTickets_decrement(q)
  \/ reserveTickets_commit(q)
  \/ rollback(q)

\* C16: reservations of different events never wait for each other: while
\* a reservation of event A holds A's row lock uncommitted, a reservation of
\* event B finds B's row lock not held by it and, unless a third
\* transaction holds that lock, can take its next step, at every point up
\* to its COMMIT.
DifferentEventsNeverWait ==
  \A p, q \in Procs :
    /\ p # q
    /\ req[p].op = "reserve" /\ lockE[req[p].eventId] = p
    /\ req[q].op = "reserve" /\ req[q].eventId # req[p].eventId
    => /\ lockE[req[q].eventId] # p
       /\ lockE[req[q].eventId] \in {NULL, q} => ENABLED reserveTickets_step(q)

\* reservations of two events have both leased tickets and stand before
\* their COMMIT at the same time, each holding its event's row lock
WitnessDifferentEventsNeverWait ==
  \E p, q \in Procs :
    /\ req[p].op = "reserve" /\ pc[p] = "commit"
    /\ req[q].op = "reserve" /\ pc[q] = "commit"
    /\ req[p].eventId # req[q].eventId
    /\ lockE[req[p].eventId] = p /\ lockE[req[q].eventId] = q
    /\ reservedTickets[p] # <<>> /\ reservedTickets[q] # <<>>

\* a transaction that changes an event's counters: a reservation, or a
\* confirmation whose payment fails
ChangesCounters(p) ==
  \/ req[p].op = "reserve"
  \/ req[p].op = "confirm" /\ ~simulatePayment(req[p].paymentSimulation)

UserListAppendOnly ==
  [][/\ \A u \in UserIds : \A m \in DOMAIN users[u] :
          \E n \in DOMAIN users'[u] : users'[u][n] = users[u][m]
     /\ (\A p \in Procs : pc'[p] = "idle") =>
          \A p \in Procs :
            result'[p].type = "confirmed" =>
              \A k \in DOMAIN result'[p].tickets :
                \E n \in DOMAIN users'[result'[p].tickets[k].user_id] :
                  users'[result'[p].tickets[k].user_id][n]
                    = ToString(result'[p].tickets[k].id)]_vars

\* C19 as stated: a confirmBooking call with payment success that fails
\* after validation, the failure of the final COMMIT included, is rolled
\* back entirely: its tickets stay 'pending' and the user's list is as
\* before the call, when those tickets were pending and so not in it.
NoPartialCommitInConfirm ==
  [][\A p \in Procs :
       /\ req[p].op = "confirm" /\ result[p] = StorageError
       /\ pc[p] = "rollback" /\ pc'[p] = "idle"
       => \A k \in DOMAIN req[p].ticketIds :
            /\ tickets'[req[p].ticketIds[k]].status = "pending"
            /\ \A n \in DOMAIN users'[req[p].userId] :
                 users'[req[p].userId][n] # ToString(req[p].ticketIds[k])]_vars

\* C20: a call is made with a userId, and for reserveTickets an eventId,
\* that may not exist.  Only calls whose ids exist get a transaction; a
\* call with a missing id ends at once with NotFound: its caller is still
\* idle, no connection, lock or write was made, and no ticket, counter or
\* user list has changed.
NotFoundBeforeTransaction ==
  [][/\ \A p \in Procs :
          req'[p].op # "none" =>
            /\ req'[p].userId \in DOMAIN users
            /\ req'[p].op = "reserve" => req'[p].eventId \in DOMAIN events
     /\ calls' # calls /\ pc' = pc =>
          /\ \E p \in Procs :
               /\ pc[p] = "idle"
               /\ result'[p] \in {UserNotFound, EventNotFound}
               /\ \A q \in Procs \ {p} : result'[q] = result[q]
          /\ req' = req /\ wrT' = wrT /\ wrE' = wrE
          /\ lockT' = lockT /\ lockE' = lockE
          /\ NothingChanged]_vars

\* one call has ended with NotFound for its user, another for its event
WitnessNotFound ==
  \E p, q \in Procs :
    /\ pc[p] = "idle" /\ result[p] = UserNotFound
    /\ pc[q] = "idle" /\ result[q] = EventNotFound

\* the owner of a ticket is somebody other than the user p calls for
OwnedByAnother(p, t) == tickets[t].user_id \notin {NULL, req[p].userId}

\* C21: a confirmBooking call naming a 'pending' or 'booked' ticket whose
\* user_id is another user fails with the does-not-belong error and changes
\* nothing; and no step of any call made with a user id changes a ticket
\* that another user holds or has booked.
OwnershipProtected ==
  [][\A p \in Procs :
       /\ \A status \in {"pending", "booked"} :
            Examines(p, status)
              /\ OwnedByAnother(p, req[p].ticketIds[i[p]]) =>
              /\ pc'[p] = "rollback"
              /\ result'[p] = NotThisUser(req[p].ticketIds[i[p]])
              /\ NothingChanged
       /\ pc[p] = "rollback" /\ StepOf(p) => NothingChanged
       /\ req[p].op # "none" /\ StepOf(p) =>
            \A t \in TicketIds :
              OwnedByAnother(p, t) => tickets'[t] = tickets[t]]_vars

\* a call was refused for a ticket that another user holds, still held
WitnessOwnershipProtected ==
  \E p \in Procs :
    /\ pc[p] = "idle" /\ result[p].type = "NotThisUser"
    /\ tickets[result[p].ticketId].status = "pending"
    /\ tickets[result[p].ticketId].user_id # NULL

BusinessOutcomes ==
  {"none", "reserved", "confirmed", "released", "NotFound:User",
   "NotFound:Event", "NotFound:Ticket", "Insufficient", "FailedToReserve",
   "NotThisUser", "NotPending"}

\* C23 as stated: every call that does not succeed ends with one of the
\* business errors, whatever its input, a confirmBooking call with an empty
\* ticket-id list included.
OnlyBusinessErrors ==
  \A p \in Procs : result[p].type \in BusinessOutcomes

\* C24 as stated: the COMMIT of a reserveTickets call lowers every tier's
\* available counter of its event by exactly the number of tickets of that
\* tier the call has flipped to 'pending', whatever the demand list.
DecrementMatchesLeased ==
  [][\A p \in Procs :
       CommitBy(p, "reserve") =>
         \A tier \in TicketTier :
           available(events'[req[p].eventId], tier) =
             available(events[req[p].eventId], tier)
             - Cardinality({t \in TicketIds :
                              /\ tickets[t].status = "available"
                              /\ tickets'[t].status = "pending"
                              /\ tickets[t].tier = tier})]_vars

\* C25: every available counter of every event is non-negative in every
\* committed state and inside every transaction, for demands whose
\* quantities are >= 0.
CountersNonNegative ==
  /\ \A e \in DOMAIN events, tier \in TicketTier : available(events[e], tier) >= 0
  /\ \A p \in Procs : \A e \in DOMAIN wrE[p], tier \in TicketTier :
       available(wrE[p][e], tier) >= 0

\* a reservation has taken the last tickets of a tier: its counter is 0
WitnessCountersNonNegative ==
  \E p \in Procs :
    /\ pc[p] = "idle" /\ result[p].type = "reserved"
    /\ result[p].tickets # <<>>
    /\ available(events[1], result[p].tickets[1].tier) = 0
    /\ CountStatus(1, result[p].tickets[1].tier, "available") = 0

\* the tiers a demand list asks for, one element per ticket, in the order
\* of the list
RECURSIVE TierList(_)
TierList(demand) ==
  IF demand = <<>> THEN <<>>
  ELSE [k \in 1..Head(demand).quantity |-> Head(demand).tier]
       \o TierList(Tail(demand))

\* C26: the list a reserveTickets call returns at its COMMIT holds, entry by
\* entry of the demand list, exactly `quantity` tickets of the entry's tier;
\* the tickets are distinct, each is of the requested event, was 'available'
\* before the call and is 'pending' with user_id = the caller after it.
ReservedAsDemanded ==
  [][\A p \in Procs :
       CommitBy(p, "reserve") =>
         /\ result'[p] = Reserved(reservedTickets[p])
         /\ [k \in DOMAIN reservedTickets[p] |-> reservedTickets[p][k].tier]
              = TierList(req[p].tickets)
         /\ NoDuplicates(reservedTickets[p])
         /\ \A k \in DOMAIN reservedTickets[p] :
              LET row == reservedTickets[p][k]
              IN /\ row.event_id = req[p].eventId
                 /\ tickets[row.id].event_id = req[p].eventId
                 /\ tickets[row.id].tier = row.tier
                 /\ tickets[row.id].status = "available"
                 /\ tickets'[row.id] = row
                 /\ row.status = "pending"
                 /\ row.user_id = req[p].userId]_vars

\* a call has returned tickets of the second event, held by user 2
WitnessReservedAsDemanded ==
  \E p \in Procs :
    /\ pc[p] = "idle" /\ result[p].type = "reserved"
    /\ Len(result[p].tickets) >= 1
    /\ \A k \in DOMAIN result[p].tickets :
         /\ result[p].tickets[k].event_id = 2
         /\ result[p].tickets[k].user_id = 2
         /\ tickets[result[p].tickets[k].id] = result[p].tickets[k]

\* the tickets of event e and tier `tier` that the step releases
ReleasedOf(e, tier) ==
  {t \in TicketIds :
     /\ tickets[t].status = "pending" /\ tickets'[t].status = "available"
     /\ tickets[t].event_id = e /\ tickets[t].tier = tier}

\* C27 as stated: at the COMMIT of a confirmBooking call whose payment
\* failed (its ids listed once each), the counter of every event and tier
\* rises by the number of tickets of that event and tier the call releases,
\* also when the ids belong to more than one event.
RestoreToOwnEventAndTier ==
  [][\A p \in Procs :
       /\ CommitBy(p, "confirm")
       /\ ~simulatePayment(req[p].paymentSimulation)
       /\ NoDuplicates(req[p].ticketIds)
       => \A e \in DOMAIN events, tier \in TicketTier :
            available(events'[e], tier) =
              available(events[e], tier) + Cardinality(ReleasedOf(e, tier))]_vars

\* the ids of a list, each once, in the order of their first occurrence
RECURSIVE Distinct(_)
Distinct(ids) ==
  IF ids = <<>> THEN <<>>
  ELSE LET front == Distinct(SubSeq(ids, 1, Len(ids) - 1))
           last == ids[Len(ids)]
       IN IF last \in Range(front) THEN front ELSE Append(front, last)

\* C28 as stated: a confirmBooking call whose list names an id more than
\* once does what the call with the id named once does: on the failure path
\* a counter rises once per distinct ticket released, on the success path
\* every id is appended to the user's tickets list once.
DuplicateIdsCountOnce ==
  [][\A p \in Procs :
       /\ CommitBy(p, "confirm") /\ ~simulatePayment(req[p].paymentSimulation)
          => \A e \in DOMAIN events, tier \in TicketTier :
               available(events'[e], tier) =
                 available(events[e], tier) + Cardinality(ReleasedOf(e, tier))
       /\ pc[p] = "updateTickets" /\ pc'[p] = "commit"
          => users'[req[p].userId] =
               user[p] \o Strings(Distinct(req[p].ticketIds))]_vars

\* p and q are two confirmBooking calls in progress that both name ticket t
Contending(p, q, t) ==
  /\ p # q
  /\ req[p].op = "confirm" /\ req[q].op = "confirm"
  /\ \E k \in DOMAIN req[p].ticketIds : req[p].ticketIds[k] = t
  /\ \E k \in DOMAIN req[q].ticketIds : req[q].ticketIds[k] = t

InitFair ==
  /\ \E n \in 1..NumVip :
       /\ tickets = [t \in TicketIds |->
                       IF t <= n THEN Row(t, "pending", 1, FALSE)
                                 ELSE Row(t, "available", NULL, FALSE)]
       /\ events = [e \in EventIds |-> Counters(NumVip - n, 0, NumGa)]
  /\ users = [u \in UserIds |-> <<>>]
  /\ pc = [p \in Procs |-> "idle"]
  /\ req = [p \in Procs |-> NoRequest]
  /\ i = [p \in Procs |-> 0]
  /\ j = [p \in Procs |-> 0]
  /\ reservedTickets = [p \in Procs |-> <<>>]
  /\ verified = [p \in Procs |-> <<>>]
  /\ user = [p \in Procs |-> <<>>]
  /\ wrT = [p \in Procs |-> <<>>]
  /\ wrE = [p \in Procs |-> <<>>]
  /\ lockT = [t \in TicketIds |-> NULL]
  /\ lockE = [e \in EventIds |-> NULL]
  /\ result = [p \in Procs |-> NoResult]
  /\ calls = 0

\* the demand lists of at most one entry
OneEntryDemands == {demand \in Demands : Len(demand) <= 1}

DisjointFromOthers(p, ticketIds) ==
  \A q \in Procs \ {p} :
    req[q].op = "confirm" => Range(ticketIds) \cap Range(req[q].ticketIds) = {}

CallStep(p) ==
  \/ reserveTickets_lockEvent(p)
  \/ reserveTickets_check(p)
  \/ reserveTickets_reserve(p)
  \/ reserveTickets_decrement(p)
  \/ reserveTickets_commit(p)
  \/ confirmBooking_verify(p)
  \/ confirmBooking_payment(p)
  \/ confirmBooking_restore(p)
  \/ confirmBooking_updateTickets(p)
  \/ confirmBooking_commit(p)
  \/ rollback(p)

NextDisjoint ==
  \E p \in Procs :
    \/ /\ result[p] = NoResult
       /\ \E userId \in UserIds, eventId \in EventIds,
             demand \in OneEntryDemands :
            reserveTickets_begin(p, userId, eventId, demand)
    \/ /\ result[p] = NoResult
       /\ \E userId \in UserIds, ticketIds \in TicketIdLists,
             paymentSimulation \in Payments :
            /\ DisjointFromOthers(p, ticketIds)
            /\ confirmBooking_begin(p, userId, ticketIds, paymentSimulation)
    \/ CallStep(p)

SpecFair ==
  /\ InitFair
  /\ [][NextDisjoint]_vars
  /\ \A p \in Procs : WF_vars(CallStep(p))

\* caller p is at a statement that waits for a row lock caller q holds
WaitsFor(p, q) ==
  \/ /\ pc[p] = "lockEvent"
     /\ lockE[req[p].eventId] = q
  \/ /\ pc[p] = "verify"
     /\ req[p].ticketIds[i[p]] \in TicketIds
     /\ lockT[req[p].ticketIds[i[p]]] = q
  \/ /\ pc[p] = "restore"
     /\ verified[p] # <<>>
     /\ lockE[verified[p][1].event_id] = q

\* no set of callers in which everyone waits for a member of the set
NoLockWaitCycle ==
  \A S \in SUBSET Procs \ {{}} :
    \E p \in S : \A q \in S \ {p} : ~WaitsFor(p, q)

\* C30: among concurrent reserveTickets calls and confirmBooking calls that
\* name pairwise disjoint ticket ids there is never a cycle of callers
\* waiting for each other's locks, and under fair scheduling every call
\* that has begun commits or rolls back.
EveryCallEnds ==
  /\ []NoLockWaitCycle
  /\ \A p \in Procs : (pc[p] # "idle") ~> (pc[p] = "idle")

\* a confirmation whose payment failed holds its ticket and waits for the
\* event row, which a reservation has locked, while the reservation has
\* skipped the held ticket and leased another
WitnessEveryCallEnds ==
  \E p, q \in Procs :
    /\ req[p].op = "confirm" /\ pc[p] = "restore" /\ WaitsFor(p, q)
    /\ req[q].op = "reserve" /\ reservedTickets[q] # <<>>
    /\ \E t \in TicketIds : lockT[t] = p

\* ------------------------------------------------------ the connection pool
\* pool.connect() checks a client out until client.release(); pool.query()
\* borrows an idle client for one statement and waits while none is idle.
\* As many connections as concurrent callers.
PoolSize == NumProcs

\* the callers that hold a checked-out client: from pool.connect() to
\* client.release()
clients == {p \in Procs : pc[p] # "idle"}

\* the pool has an idle client for pool.query() or pool.connect()
idleClient == Cardinality(clients) < PoolSize

NextPool ==
  \E p \in Procs :
    \/ /\ calls < MaxCalls
       /\ idleClient
       /\ \E userId \in UserArgs, eventId \in EventArgs, demand \in Demands :
            reserveTickets_begin(p, userId, eventId, demand)
    \/ reserveTickets_lockEvent(p)
    \/ idleClient /\ reserveTickets_check(p)
    \/ reserveTickets_reserve(p)
    \/ reserveTickets_decrement(p)
    \/ reserveTickets_commit(p)
    \/ rollback(p)
    \/ /\ calls < MaxCalls
       /\ idleClient
       /\ \E userId \in UserArgs, ticketIds \in TicketIdLists,
             paymentSimulation \in Payments :
            confirmBooking_begin(p, userId, ticketIds, paymentSimulation)
    \/ confirmBooking_verify(p)
    \/ confirmBooking_payment(p)
    \/ confirmBooking_restore(p)
    \/ idleClient /\ confirmBooking_updateTickets(p)
    \/ confirmBooking_commit(p)

SpecPool == Init /\ [][NextPool]_vars

\* C31 as stated: with as many pooled connections as concurrent calls, the
\* call that holds the event lock and is about to count the available
\* tickets always finds an idle connection for the query: never are all
\* connections checked out while every other call waits for the lock this
\* call holds.
LockHolderGetsConnection ==
  \A p \in Procs :
    /\ pc[p] = "check"
    /\ lockE[req[p].eventId] = p
    /\ \A q \in Procs \ {p} : WaitsFor(q, p)
    => idleClient

\* ------------------------------------------------------- storage failures
\* A statement of a call in progress is rejected by the database: BEGIN or
\* the first statement after it (before any lock is taken), a query of the
\* loops, the counter update or COMMIT. Control goes to the catch block.
statementFails(p) ==
  /\ pc[p] \notin {"idle", "rollback"}
  /\ Throw(p, StorageError)
  /\ UNCHANGED <<lockT, lockE>>

\* catch (error) { await client.query('ROLLBACK'); throw error } finally
\* { client.release() } when the ROLLBACK itself is rejected: the finally
\* block returns the client to the pool and the call ends. Either the
\* server has ended the session and with it the transaction, or the
\* transaction is still open on the connection that went back to the pool,
\* its row locks with it.
rollback_fails(p) ==
  /\ pc[p] = "rollback"
  /\ \/ Rollback(p, StorageError)
     \/ /\ pc' = [pc EXCEPT ![p] = "idle"]
        /\ result' = [result EXCEPT ![p] = StorageError]
        /\ req' = [req EXCEPT ![p] = NoRequest]
        /\ wrT' = [wrT EXCEPT ![p] = <<>>]
        /\ wrE' = [wrE EXCEPT ![p] = <<>>]
        /\ UNCHANGED <<tickets, events, i, j, reservedTickets, verified,
                       user, lockT, lockE>>
  /\ UNCHANGED <<users, calls>>

\* One reserveTickets or confirmBooking call per caller, where any statement
\* may be rejected.
NextStorage ==
  \E p \in Procs :
    \/ /\ result[p] = NoResult
       /\ \E userId \in UserIds, eventId \in EventIds,
             demand \in OneEntryDemands :
            reserveTickets_begin(p, userId, eventId, demand)
    \/ /\ result[p] = NoResult
       /\ \E userId \in UserIds, ticketIds \in TicketIdLists,
             paymentSimulation \in Payments :
            confirmBooking_begin(p, userId, ticketIds, paymentSimulation)
    \/ CallStep(p)
    \/ statementFails(p)
    \/ rollback_fails(p)

SpecStorage == InitFair /\ [][NextStorage]_vars

\* C32 as stated: a call that has ended, by commit, by a business error or
\* by a storage failure (of BEGIN, COMMIT or ROLLBACK too), holds neither
\* its pooled connection nor a row lock nor an open transaction.
NothingHeldAfterCall ==
  \A p \in Procs :
    pc[p] = "idle" =>
      /\ p \notin clients
      /\ \A t \in TicketIds : lockT[t] # p
      /\ \A e \in DOMAIN lockE : lockE[e] # p
      /\ wrT[p] = <<>> /\ wrE[p] = <<>>

\* ------------------------------------------- demands of distinct tiers
\* the demand lists that name each tier at most once (quantities >= 0), and
\* the ticket-id lists that name each id at most once
DistinctTierDemands ==
  {demand \in Demands :
     \A k, m \in DOMAIN demand : demand[k].tier = demand[m].tier => k = m}

DistinctIdLists == {ticketIds \in TicketIdLists : NoDuplicates(ticketIds)}

NextDistinct ==
  \E p \in Procs :
    \/ /\ calls < MaxCalls
       /\ \E userId \in UserArgs, eventId \in EventArgs,
             demand \in DistinctTierDemands :
            reserveTickets_begin(p, userId, eventId, demand)
    \/ /\ calls < MaxCalls
       /\ \E userId \in UserArgs, ticketIds \in DistinctIdLists,
             paymentSimulation \in Payments :
            confirmBooking_begin(p, userId, ticketIds, paymentSimulation)
    \/ CallStep(p)

SpecDistinct == Init /\ [][NextDistinct]_vars

\* C33 as stated: when every demand names each tier at most once, no
\* reserveTickets call ends with 'Failed to reserve ticket', whatever the
\* interleaving with other reserveTickets and confirmBooking calls.
NoReservationConflict ==
  \A p \in Procs : result[p].type # "FailedToReserve"

\* C34 as stated: the availability check of a demand entry counts what the
\* call's own transaction sees, so the tickets of the tier the call has
\* already flipped to 'pending' are no longer counted: an entry whose
\* quantity exceeds the tier's count less those tickets fails with the
\* insufficient-inventory error.
CheckSeesOwnLeases ==
  [][\A p \in Procs :
       /\ pc[p] = "check" /\ StepOf(p)
       /\ req[p].tickets[i[p]].quantity >
            available(events[req[p].eventId], req[p].tickets[i[p]].tier)
            - FilterCount(reservedTickets[p], req[p].tickets[i[p]].tier)
       => /\ pc'[p] = "rollback"
          /\ result'[p].type = "Insufficient"]_vars

\* ------------------------------------------------ one caller, no overlap
\* Calls made one after the other by a single caller: what a call does to
\* the tables when nothing runs beside it.
SoloCaller == {1}

NextSolo ==
  \E p \in SoloCaller :
    \/ /\ calls < MaxCalls
       /\ \E userId \in UserIds, eventId \in EventIds, demand \in Demands :
            reserveTickets_begin(p, userId, eventId, demand)
    \/ reserveTickets_lockEvent(p)
    \/ reserveTickets_check(p)
    \/ reserveTickets_reserve(p)
    \/ reserveTickets_decrement(p)
    \/ reserveTickets_commit(p)
    \/ rollback(p)

SpecSolo == Init /\ [][NextSolo]_vars

\* The reserve the design describes, as a function of the tables and the
\* request: (2) every entry of the demand is compared with its tier's
\* counter, in order, and the first short one fails the call; (3) then the
\* tickets are leased entry by entry, the lowest available id of the tier
\* each time, and a lease that finds none fails the call; (4) every
\* counter is lowered by the number of tickets leased of its tier.
reserve_short(ev, demand) ==
  {k \in DOMAIN demand : available(ev, demand[k].tier) < demand[k].quantity}

RECURSIVE reserve_lease(_, _, _, _, _)
reserve_lease(tk, eventId, userId, tiers, rows) ==
  IF tiers = <<>> THEN [ok |-> TRUE, tier |-> "", tickets |-> tk, rows |-> rows]
  ELSE LET free == {t \in TicketIds : /\ tk[t].event_id = eventId
                                      /\ tk[t].tier = Head(tiers)
                                      /\ tk[t].status = "available"}
           id == CHOOSE t \in free : \A o \in free : t <= o
           row == [tk[id] EXCEPT !.status = "pending", !.user_id = userId]
       IN IF free = {}
            THEN [ok |-> FALSE, tier |-> Head(tiers), tickets |-> tk,
                  rows |-> rows]
            ELSE reserve_lease([tk EXCEPT ![id] = row], eventId, userId,
                               Tail(tiers), Append(rows, row))

reserve(tk, evs, userId, eventId, demand) ==
  LET short == reserve_short(evs[eventId], demand)
      first == CHOOSE k \in short : \A m \in short : k <= m
      leased == reserve_lease(tk, eventId, userId, TierList(demand), <<>>)
  IN IF short # {}
       THEN [outcome |-> Insufficient(demand[first].tier,
                           available(evs[eventId], demand[first].tier),
                           demand[first].quantity),
             tickets |-> tk, events |-> evs]
     ELSE IF ~leased.ok
       THEN [outcome |-> FailedToReserve(leased.tier),
             tickets |-> tk, events |-> evs]
     ELSE [outcome |-> Reserved(leased.rows),
           tickets |-> leased.tickets,
           events |-> [evs EXCEPT ![eventId] =
                         Counters(@.available_vip
                                    - FilterCount(leased.rows, "VIP"),
                                  @.available_front_row
                                    - FilterCount(leased.rows, "Front Row"),
                                  @.available_ga
                                    - FilterCount(leased.rows, "GA"))]]

\* C35 as stated: a reserveTickets call that runs alone ends with the
\* outcome the described reserve has for the same tables and request (the
\* same tickets, or the same error with the same tier, available and
\* requested values), and leaves the tables as the described reserve does.
SameAsDescribedReserve ==
  [][\A p \in SoloCaller :
       req[p].op = "reserve" /\ pc[p] # "idle" /\ pc'[p] = "idle" =>
         LET described == reserve(tickets, events, req[p].userId,
                                  req[p].eventId, req[p].tickets)
         IN /\ result'[p] = described.outcome
            /\ tickets' = described.tickets
            /\ events' = described.events]_vars

\* ------------------------------------------------- TicketService.createTickets
\* A row of TicketIds that no createTickets call has inserted yet has the
\* status "absent": no query finds it.
Absent(id) == Row(id, "absent", NULL, FALSE)

absentOf(tier) ==
  {t \in TicketIds : tickets[t].status = "absent" /\ tierOf(t) = tier}

\* the n lowest ids of a set: the ids the next n inserted rows get
Lowest(ids, n) == {t \in ids : Cardinality({o \in ids : o < t}) < n}

\* { created: tickets.length, breakdown }
Created(n) == Outcome("created", "", 0, n, NULL, "", <<>>)

\* eventRepository.findById, pool.connect(), BEGIN, the ticketsToCreate list
createTickets_begin(p, eventId, vipCount, gaCount) ==
  /\ pc[p] = "idle"
  /\ calls' = calls + 1
  /\ IF eventId \notin DOMAIN events
       THEN /\ result' = [result EXCEPT ![p] = EventNotFound]
            /\ UNCHANGED <<pc, req>>
       ELSE /\ result' = [result EXCEPT ![p] = NoResult]
            /\ pc' = [pc EXCEPT ![p] = "createBulk"]
            /\ req' = [req EXCEPT ![p] =
                         [op |-> "create", userId |-> NULL,
                          eventId |-> eventId,
                          tickets |-> <<[tier |-> "VIP", quantity |-> vipCount],
                                        [tier |-> "GA", quantity |-> gaCount]>>,
                          ticketIds |-> <<>>, paymentSimulation |-> "success"]]
  /\ UNCHANGED <<tickets, events, users, i, j, reservedTickets, verified,
                 user, wrT, wrE, lockT, lockE>>

\* ticketRepository.createBulk(ticketsToCreate): called without the client,
\* so the rows are inserted through the pool and committed at once
createTickets_createBulk(p) ==
  /\ pc[p] = "createBulk"
  /\ LET new == Lowest(absentOf("VIP"), FindQuantity(req[p].tickets, "VIP"))
                \cup Lowest(absentOf("GA"), FindQuantity(req[p].tickets, "GA"))
     IN tickets' = [t \in TicketIds |->
                      IF t \in new THEN Row(t, "available", NULL, FALSE)
                                   ELSE tickets[t]]
  /\ pc' = [pc EXCEPT ![p] = "updateCounts"]
  /\ UNCHANGED <<events, users, req, i, j, reservedTickets, verified, user,
                 wrT, wrE, lockT, lockE, result, calls>>

\* eventRepository.updateAvailableTickets(eventId, vipCount, frontRowCount,
\* gaCount, client): inside the transaction; the UPDATE waits for the
\* event row's lock
createTickets_updateAvailableTickets(p) ==
  /\ pc[p] = "updateCounts"
  /\ LET e == req[p].eventId
     IN /\ lockE[e] \in {NULL, p}
        /\ lockE' = [lockE EXCEPT ![e] = p]
        /\ wrE' = [wrE EXCEPT ![p] =
                     (e :> updateAvailableTickets(txEvents(p)[e],
                             FindQuantity(req[p].tickets, "VIP"), 0,
                             FindQuantity(req[p].tickets, "GA")))
                     @@ wrE[p]]
  /\ pc' = [pc EXCEPT ![p] = "commit"]
  /\ UNCHANGED <<tickets, events, users, req, i, j, reservedTickets,
                 verified, user, wrT, lockT, result, calls>>

createTickets_commit(p) ==
  /\ pc[p] = "commit"
  /\ req[p].op = "create"
  /\ Commit(p, Created(FindQuantity(req[p].tickets, "VIP")
                       + FindQuantity(req[p].tickets, "GA")))
  /\ UNCHANGED <<users, calls>>

\* createBulk, the counter update or COMMIT is rejected: control goes to
\* the catch block, which rolls the transaction back
createTickets_fails(p) ==
  /\ req[p].op = "create"
  /\ statementFails(p)

\* The event of the migration, no ticket yet.
InitCreate ==
  /\ tickets = [t \in TicketIds |-> Absent(t)]
  /\ events = [e \in EventIds |-> Counters(0, 0, 0)]
  /\ users = [u \in UserIds |-> <<>>]
  /\ pc = [p \in Procs |-> "idle"]
  /\ req = [p \in Procs |-> NoRequest]
  /\ i = [p \in Procs |-> 0]
  /\ j = [p \in Procs |-> 0]
  /\ reservedTickets = [p \in Procs |-> <<>>]
  /\ verified = [p \in Procs |-> <<>>]
  /\ user = [p \in Procs |-> <<>>]
  /\ wrT = [p \in Procs |-> <<>>]
  /\ wrE = [p \in Procs |-> <<>>]
  /\ lockT = [t \in TicketIds |-> NULL]
  /\ lockE = [e \in EventIds |-> NULL]
  /\ result = [p \in Procs |-> NoResult]
  /\ calls = 0

\* createTickets calls, one at a time and for rows not yet inserted, beside
\* reserveTickets calls of distinct tiers.
NextCreate ==
  \E p \in Procs :
    \/ /\ calls < MaxCalls
       /\ \A q \in Procs : req[q].op # "create"
       /\ \E eventId \in EventArgs,
             vipCount \in 0..Cardinality(absentOf("VIP")),
             gaCount \in 0..Cardinality(absentOf("GA")) :
            createTickets_begin(p, eventId, vipCount, gaCount)
    \/ createTickets_createBulk(p)
    \/ createTickets_updateAvailableTickets(p)
    \/ createTickets_commit(p)
    \/ createTickets_fails(p)
    \/ /\ calls < MaxCalls
       /\ \E userId \in UserIds, eventId \in EventIds,
             demand \in DistinctTierDemands :
            reserveTickets_begin(p, userId, eventId, demand)
    \/ reserveTickets_lockEvent(p)
    \/ reserveTickets_check(p)
    \/ reserveTickets_reserve(p)
    \/ reserveTickets_decrement(p)
    \/ reserveTickets_commit(p)
    \/ rollback(p)

SpecCreate == InitCreate /\ [][NextCreate]_vars

\* C36 as stated: once a createTickets call has ended, by COMMIT or by a
\* failure at any step, every tier's available counter equals the number of
\* 'available' tickets of the tier, as every other call sees them.
CreateKeepsCounters ==
  (\A p \in Procs : req[p].op # "create") =>
    \A e \in DOMAIN events, tier \in TicketTier :
      available(events[e], tier) = CountStatus(e, tier, "available")

\* the tickets a lease of caller p may take: of the requested event and
\* tier, 'available', not yet written by p and not locked by another
\* transaction
Leasable(p) ==
  {t \in TicketIds :
     /\ tickets[t].event_id = req[p].eventId
     /\ tickets[t].tier = req[p].tickets[i[p]].tier
     /\ tickets[t].status = "available"
     /\ t \notin DOMAIN wrT[p]
     /\ lockT[t] \in {NULL, p}}

\* C37: a lease inside reserveTickets never waits; it takes the lowest id
\* among the tickets of the requested event and tier that are 'available'
\* and not locked by another transaction, locks it and writes it 'pending'
\* for the caller; it returns no ticket, and the call fails, only when
\* there is no such ticket.
LeaseTakesLowestFree ==
  /\ [](\A p \in Procs :
          pc[p] = "reserve" => ENABLED reserveTickets_reserve(p))
  /\ [][\A p \in Procs :
          pc[p] = "reserve" /\ StepOf(p) =>
            IF Leasable(p) = {}
              THEN /\ result'[p] = FailedToReserve(req[p].tickets[i[p]].tier)
                   /\ pc'[p] = "rollback"
              ELSE LET id == CHOOSE t \in Leasable(p) :
                               \A o \in Leasable(p) : t <= o
                   IN /\ lockT'[id] = p
                      /\ wrT'[p][id].status = "pending"
                      /\ wrT'[p][id].user_id = req[p].userId
                      /\ DOMAIN wrT'[p] = DOMAIN wrT[p] \cup {id}
                      /\ reservedTickets'[p] =
                           Append(reservedTickets[p], wrT'[p][id])
                      /\ result'[p] = NoResult]_vars

\* a lease has passed over an available ticket that another transaction
\* has locked and has taken the next one
WitnessLeaseTakesLowestFree ==
  \E p, q \in Procs : \E t1, t2 \in TicketIds :
    /\ p # q /\ t1 < t2
    /\ req[p].op = "reserve"
    /\ t2 \in IdSet(reservedTickets[p])
    /\ tickets[t1].status = "available" /\ lockT[t1] = q
    /\ tickets[t1].tier = tickets[t2].tier
    /\ tickets[t1].event_id = tickets[t2].event_id

====
